---- MODULE Spec2Model ----
(***************************************************************************)
(* Model of nvfp4-fix: the patch engine (patches/patcher.py) that edits    *)
(* three files of an installed compressed-tensors package, and the         *)
(* checkpoint repair pipeline (scripts/fix_model.py).                      *)
(*                                                                         *)
(* A source file is a sequence of lines; a line is a record                *)
(* [ind |-> number of leading spaces, txt |-> the text after them].        *)
(* Substring tests of the code ('marker in content', 'anchor in line')     *)
(* are tables over the line texts the model draws files from.              *)
(***************************************************************************)
EXTENDS Integers, Sequences, FiniteSets, TLC

VARIABLES
    installed,   \* compressed_tensors can be imported
    readable,    \* readable[t]: target t exists and can be opened for reading
    basePad,     \* number of leading lines of base.py that hold neither anchor nor marker
    files,       \* files[t]: the lines of target t (for base.py: the lines after the pad)
    hasBackup,   \* hasBackup[t]: '<target t>.backup' exists
    backups,     \* backups[t]: the lines of '<target t>.backup'
    pc,          \* position of the running apply_patch call, "idle" between calls
    result,      \* outcome of the last finished apply_patch call
    log,         \* file writes of the current (or last finished) apply_patch call, in order
    pre,         \* files at the start of the current (or last finished) call
    prevResult,  \* outcome of the call before the last one
    calls,       \* apply_patch calls started
    checked,     \* result of the last is_patched() made by the 'check' command
    orig,        \* files as they were before the first apply_patch call
    \* fix_nvfp4_model (scripts/fix_model.py), one invocation
    fpc,           \* stage the invocation is about to run, "Done" or "Raised" at its end
    dtype,         \* the dtype argument
    shardDir,      \* the *.safetensors files of input_path: file name -> its entries in f.keys() order
    modules,       \* named_modules() of the loaded model: name -> has weight_packed
    scale_tensors, \* the dict scale_tensors: module name -> tensor
    buffers,       \* buffers[name]: the buffer weight_scale of that module, NoBuffer if none
    injected,      \* the counter injected
    forward,       \* outcome of the validation forward pass
    outDir,        \* output_path.mkdir was called
    saved,         \* what model.save_pretrained wrote: the buffers, NotSaved before
    copied,        \* side files copied to output_path
    fresult,       \* return value or exception of the invocation
    \* one key of a shard passing through the naming rewrite
    nkey,          \* the key
    nname,         \* the module name retained for it, NotRetained if none
    \* one run of the nvfp4-fix command (cli.py)
    command,       \* args.command
    cpc,           \* where main() is
    exitCode,      \* << >> while running, <<status>> once the process has exited
    prompted,      \* the 'Continue anyway?' prompt was shown
    response,      \* what input() gave
    traceback,     \* an exception left main() uncaught
    \* the module globals of low_memory.py and the attribute they toggle
    lm_patched,        \* _patched
    original_forward,  \* _original_forward
    class_forward,     \* CompressedLinear.forward
    first_forward,     \* CompressedLinear.forward when low_memory.py was imported
    toggles            \* the enable/disable calls made so far

pvars == <<installed, readable, basePad, files, hasBackup, backups, pc, result,
           log, pre, prevResult, calls, checked, orig>>
fvars == <<fpc, dtype, shardDir, modules, scale_tensors, buffers, injected,
           forward, outDir, saved, copied, fresult>>
nvars == <<nkey, nname>>
cvars == <<command, cpc, exitCode, prompted, response, traceback>>
lvars == <<lm_patched, original_forward, class_forward, first_forward, toggles>>
vars == <<pvars, fvars, nvars, cvars, lvars>>

----------------------------------------------------------------------------
(* Bounds *)

MaxBaseLines == 2
MaxQuantLines == 1
MaxFp4Lines == 1
MaxCalls == 2
MaxKeys == 1
MaxSegs == 6
MaxInsertLines == 3
MaxMethodLines == 4
MaxResponseLen == 2
MaxToggles == 6

----------------------------------------------------------------------------
(* Targets and line texts *)

BASE == 1
QUANT == 2
FP4 == 3
Targets == {BASE, QUANT, FP4}

Threshold == 180

Line(ind, txt) == [ind |-> ind, txt |-> txt]

ANCHOR1 == "for name, parameter in module.named_parameters():"
MARK1 == "# PATCH: Also add named_buffers (e.g., weight_scale)"
FORBUF == "for name, buffer in module.named_buffers():"
BUFBODY == "compressed_data[name] = buffer"

SKIPDEF == "def _skip_scale(self):"
MARK2 == "# PATCHED: Don't skip scale for NVFP4 - we need it!"
RETFALSE == "return False"
OTHERDEF == "def compress(self):"
DECORATOR == "@property"
STMT == "return self.skip"

SCALE3 == "scale = compressed_data[\"weight_scale\"]"
MARK3 == "# PATCHED: Convert float8 to avoid promotion errors"
IMPORT3 == "import torch"
IF3 == "if scale.dtype == torch.float8_e4m3fn:"
TO3 == "scale = scale.to(torch.bfloat16)"
PASS == "pass"

\* 'for name, parameter in module.named_parameters():' in line
HasAnchor1(l) == l.txt = ANCHOR1
\* "# PATCH: Also add named_buffers" in <line>
HasMark1(l) == l.txt = MARK1
\* 'def _skip_scale(self):' in lines[i]
HasSkipDef(l) == l.txt = SKIPDEF
\* "# PATCHED: Don't skip scale for NVFP4" in <line>
HasMark2(l) == l.txt = MARK2
\* 'def ' in lines[i]
ContainsDef(l) == l.txt \in {SKIPDEF, OTHERDEF}
\* lines[i].strip().startswith('def ') and lines[i][0] != ' '
TopLevelDef(l) == l.txt \in {SKIPDEF, OTHERDEF} /\ l.ind = 0
\* 'def ' in lines[i] and lines[i][:4] == '    '
IndentedDef(l) == ContainsDef(l) /\ l.ind >= 4
\* '        scale = compressed_data["weight_scale"]' occurs in <line>
HasOldCode(l) == l.txt = SCALE3 /\ l.ind >= 8
\* "# PATCHED: Convert float8 to avoid promotion errors" in <line>
HasMark3(l) == l.txt = MARK3

\* The substring tests on a whole file
Mark1In(lines) == \E k \in 1..Len(lines) : HasMark1(lines[k])
Mark2In(lines) == \E k \in 1..Len(lines) : HasMark2(lines[k])
Mark3In(lines) == \E k \in 1..Len(lines) : HasMark3(lines[k])
SkipDefIn(lines) == \E k \in 1..Len(lines) : HasSkipDef(lines[k])
OldCodeIn(lines) == \E k \in 1..Len(lines) : HasOldCode(lines[k])

----------------------------------------------------------------------------
(* is_patched: patcher.py 22-43 *)

\* find_compressed_tensors_files raises ImportError unless the package imports
find_compressed_tensors_files(inst) == IF inst THEN "paths" ELSE "ImportError"

\* is_patched without the check of fp4_quantized.py
is_patched_NoFp4(inst, rd, fs) ==
    /\ inst
    /\ rd[BASE] /\ rd[QUANT]
    /\ Mark1In(fs[BASE])
    /\ Mark2In(fs[QUANT])

\* Every exception (the ImportError, a failing open) is caught and gives False;
\* the three files are opened in the order base.py, quantized base.py, fp4_quantized.py.
is_patched(inst, rd, fs) ==
    IF find_compressed_tensors_files(inst) = "ImportError" THEN FALSE
    ELSE IF ~rd[BASE] THEN FALSE
    ELSE LET base_patched == Mark1In(fs[BASE]) IN
    IF ~rd[QUANT] THEN FALSE
    ELSE LET skip_patched == Mark2In(fs[QUANT]) IN
    IF ~rd[FP4] THEN FALSE
    ELSE LET fp4_patched == Mark3In(fs[FP4]) IN
    base_patched /\ skip_patched /\ fp4_patched

----------------------------------------------------------------------------
(* Patch 1: patcher.py 68-97, the edit of base.py *)

\* The 0-based index i of the k-th modelled line is pad + k - 1.
AnchorAt_AtThreshold(pad, lines, k) == HasAnchor1(lines[k]) /\ pad + k - 1 >= Threshold
AnchorAt(pad, lines, k) == HasAnchor1(lines[k]) /\ pad + k - 1 > Threshold

\* First k the loop of line 74 stops at, 0 when it runs to the end
FirstAnchor(pad, lines) ==
    IF \E k \in 1..Len(lines) : AnchorAt(pad, lines, k)
    THEN CHOOSE k \in 1..Len(lines) :
            /\ AnchorAt(pad, lines, k)
            /\ \A j \in 1..(k-1) : ~AnchorAt(pad, lines, j)
    ELSE 0

InsertedBlock(indent) ==
    << Line(indent, MARK1), Line(indent, FORBUF), Line(indent + 4, BUFBODY) >>

\* status "ok": new_lines is written; "noanchor": patched stays False (line 91);
\* "IndexError": lines[i] of line 80 is past the end of the file.
Patch1(pad, lines) ==
    LET k == FirstAnchor(pad, lines) IN
    IF k = 0 THEN [status |-> "noanchor", lines |-> lines]
    ELSE IF k + 1 > Len(lines) THEN [status |-> "IndexError", lines |-> lines]
    ELSE [status |-> "ok",
          lines  |-> SubSeq(lines, 1, k + 1)
                        \o InsertedBlock(lines[k].ind)
                        \o SubSeq(lines, k + 2, Len(lines))]

----------------------------------------------------------------------------
(* Patch 2: patcher.py 109-135, the edit of quantized_compressors/base.py *)

\* The inner loop of lines 125-128, from index i: the index it stops at
RECURSIVE SkipBody(_, _)
SkipBody(lines, i) ==
    IF i > Len(lines) THEN i
    ELSE IF TopLevelDef(lines[i]) THEN i
    ELSE IF IndentedDef(lines[i]) THEN i
    ELSE SkipBody(lines, i + 1)

ReplacementMethod(indent) ==
    << Line(indent, SKIPDEF), Line(indent + 4, MARK2), Line(indent + 4, RETFALSE) >>

\* The outer loop of lines 115-132, from index i: what it appends to new_lines
RECURSIVE Patch2From(_, _)
Patch2From(lines, i) ==
    IF i > Len(lines) THEN << >>
    ELSE IF HasSkipDef(lines[i])
         THEN ReplacementMethod(lines[i].ind) \o Patch2From(lines, SkipBody(lines, i + 1))
         ELSE << lines[i] >> \o Patch2From(lines, i + 1)

Patch2(lines) == Patch2From(lines, 1)

----------------------------------------------------------------------------
(* Patch 3: patcher.py 147-162, the edit of fp4_quantized.py *)

\* new_code: old_code followed by four lines at fixed indentation
NewCode(l) ==
    << l, Line(8, MARK3), Line(8, IMPORT3), Line(8, IF3), Line(12, TO3) >>

\* content.replace(old_code, new_code): every occurrence, left to right
RECURSIVE Patch3From(_, _)
Patch3From(lines, i) ==
    IF i > Len(lines) THEN << >>
    ELSE (IF HasOldCode(lines[i]) THEN NewCode(lines[i]) ELSE << lines[i] >>)
            \o Patch3From(lines, i + 1)

Patch3(lines) == Patch3From(lines, 1)

----------------------------------------------------------------------------
(* apply_patch: patcher.py 45-173, one action per target *)

\* A backup that is not refreshed once it exists
CopyBackup_KeepOld(bk, fs, t) == IF bk[t] = << >> THEN [bk EXCEPT ![t] = fs[t]] ELSE bk

\* shutil.copy(target, target + ".backup"), lines 66, 107, 145
CopyBackup(bk, fs, t) == [bk EXCEPT ![t] = fs[t]]

\* The edit of target t applied to what was read from it
EditOf(t, pad, lines) ==
    CASE t = BASE  -> Patch1(pad, lines)
      [] t = QUANT -> [status |-> "ok", lines |-> Patch2(lines)]
      [] t = FP4   -> [status |-> "ok", lines |-> Patch3(lines)]

\* Where apply_patch goes after target t was written
AfterTarget(t) ==
    CASE t = BASE  -> "patch2"
      [] t = QUANT -> "patch3"
      [] t = FP4   -> "idle"

\* The call ends with outcome r: a returned boolean or a raised exception
Finish(r) ==
    /\ pc' = "idle"
    /\ result' = r

\* Lines 48-59: resolve the paths, return True when already patched
ApplyPatchBegin ==
    /\ pc = "idle"
    /\ calls < MaxCalls
    /\ calls' = calls + 1
    /\ prevResult' = result
    /\ pre' = files
    /\ log' = << >>
    /\ checked' = "none"
    /\ IF find_compressed_tensors_files(installed) = "ImportError"
       THEN Finish("ImportError")
       ELSE IF is_patched(installed, readable, files)
            THEN Finish("True")
            ELSE pc' = "patch1" /\ result' = "running"
    /\ UNCHANGED <<installed, readable, basePad, files, hasBackup, backups, orig>>
    /\ UNCHANGED <<fvars, nvars, cvars, lvars>>

\* One target of apply_patch: the backup copy, the read, the edit, the write.
\* copyOk / writeOk: whether the filesystem lets the copy / the open for writing through.
PatchTarget(t) ==
    /\ pc = (CASE t = BASE -> "patch1" [] t = QUANT -> "patch2" [] t = FP4 -> "patch3")
    /\ \E copyOk, writeOk \in BOOLEAN :
        IF ~readable[t] \/ ~copyOk
        THEN /\ Finish("OSError")
             /\ UNCHANGED <<files, hasBackup, backups, log>>
        ELSE LET r == EditOf(t, basePad, files[t]) IN
             /\ backups' = CopyBackup(backups, files, t)
             /\ hasBackup' = [hasBackup EXCEPT ![t] = TRUE]
             /\ IF r.status = "noanchor"
                THEN /\ Finish("False")
                     /\ log' = Append(log, <<"backup", t>>)
                     /\ UNCHANGED files
                ELSE IF r.status = "IndexError"
                THEN /\ Finish("IndexError")
                     /\ log' = Append(log, <<"backup", t>>)
                     /\ UNCHANGED files
                ELSE IF ~writeOk
                THEN /\ Finish("OSError")
                     /\ log' = Append(log, <<"backup", t>>)
                     /\ UNCHANGED files
                ELSE /\ files' = [files EXCEPT ![t] = r.lines]
                     /\ log' = log \o << <<"backup", t>>, <<"write", t>> >>
                     /\ pc' = AfterTarget(t)
                     /\ result' = (IF t = FP4 THEN "True" ELSE "running")
    /\ UNCHANGED <<installed, readable, basePad, pre, prevResult, calls, checked, orig>>
    /\ UNCHANGED <<fvars, nvars, cvars, lvars>>

ApplyPatch1 == PatchTarget(BASE)
ApplyPatch2 == PatchTarget(QUANT)
ApplyPatch3 == PatchTarget(FP4)

\* The 'check' command, cli.py 53-60: one is_patched() between calls
Check ==
    /\ pc = "idle"
    /\ checked = "none"
    /\ checked' = (IF is_patched(installed, readable, files) THEN "True" ELSE "False")
    /\ UNCHANGED <<installed, readable, basePad, files, hasBackup, backups, pc,
                   result, log, pre, prevResult, calls, orig>>
    /\ UNCHANGED <<fvars, nvars, cvars, lvars>>

SeqsUpTo(S, n) == UNION { [1..m -> S] : m \in 0..n }

----------------------------------------------------------------------------
(* Strings of fix_model.py: a key or module name is the sequence of its     *)
(* dot-separated segments with the dots kept as tokens of their own, so     *)
(* that str.replace and str.endswith work on it as they do on characters.   *)

DOT == "."

RECURSIVE Join(_)
Join(segs) ==
    IF Len(segs) = 0 THEN << >>
    ELSE IF Len(segs) = 1 THEN << segs[1] >>
    ELSE << segs[1], DOT >> \o Join(Tail(segs))

\* s.endswith(suffix)
endswith(s, suffix) ==
    /\ Len(s) >= Len(suffix)
    /\ SubSeq(s, Len(s) - Len(suffix) + 1, Len(s)) = suffix

\* s.replace(old, new): every occurrence, scanning from the left, old non-empty
RECURSIVE replace(_, _, _)
replace(s, old, new) ==
    IF Len(s) < Len(old) THEN s
    ELSE IF SubSeq(s, 1, Len(old)) = old
         THEN new \o replace(SubSeq(s, Len(old) + 1, Len(s)), old, new)
         ELSE << Head(s) >> \o replace(Tail(s), old, new)

WEIGHT_SCALE == << DOT, "weight_scale" >>
OLD_PREFIX == Join(<< "language_model", "model", "layers" >>)
NEW_PREFIX == Join(<< "model", "language_model", "layers" >>)

\* Lines 74-75: the module name derived from a key
module_name_of(key) ==
    LET model_key == replace(key, OLD_PREFIX, NEW_PREFIX)
    IN  replace(model_key, WEIGHT_SCALE, << >>)

----------------------------------------------------------------------------
(* fix_nvfp4_model: fix_model.py 20-133 *)

FLOAT8 == "float8_e4m3fn"
Tensor(file, key, dt) == [file |-> file, key |-> key, dtype |-> dt]
NoBuffer == Tensor("", << >>, "none")
EmptyFn == [x \in {} |-> x]
NotSaved == [done |-> FALSE, buffers |-> EmptyFn]

\* sorted(glob.glob(...)): the file names in sorted order
FileOrder == << "model-00001.safetensors", "model-00002.safetensors", "weights.safetensors" >>
\* the name matches "model-*.safetensors"
IsShardName(n) == n \in { "model-00001.safetensors", "model-00002.safetensors" }

\* Lines 60-63: the sharded files, or every *.safetensors file when there is none
shard_files(dir) ==
    LET sharded == SelectSeq(FileOrder, LAMBDA n : n \in DOMAIN dir /\ IsShardName(n))
    IN  IF sharded # << >> THEN sharded
        ELSE SelectSeq(FileOrder, LAMBDA n : n \in DOMAIN dir)

\* scale_tensors[module_name] = scale
DictSet(st, name, v) ==
    [n \in DOMAIN st \cup {name} |-> IF n = name THEN v ELSE st[n]]

\* A conversion to bfloat16 whatever the dtype argument
get_scale_Bf16(file, e, td) ==
    IF e.dtype = FLOAT8 THEN Tensor(file, e.key, "bfloat16") ELSE Tensor(file, e.key, e.dtype)

\* Lines 78-80: the tensor of an entry, float8 converted to the target dtype
get_scale(file, e, td) ==
    IF e.dtype = FLOAT8 THEN Tensor(file, e.key, td) ELSE Tensor(file, e.key, e.dtype)

\* Lines 71-81: the keys of one shard from index i on
RECURSIVE RecoverKeys(_, _, _, _, _)
RecoverKeys(st, file, entries, i, td) ==
    IF i > Len(entries) THEN st
    ELSE LET e == entries[i] IN
         IF endswith(e.key, WEIGHT_SCALE)
         THEN RecoverKeys(DictSet(st, module_name_of(e.key), get_scale(file, e, td)),
                          file, entries, i + 1, td)
         ELSE RecoverKeys(st, file, entries, i + 1, td)

\* Lines 68-81: the shards from index i on
RECURSIVE RecoverShards(_, _, _, _, _)
RecoverShards(st, dir, names, i, td) ==
    IF i > Len(names) THEN st
    ELSE RecoverShards(RecoverKeys(st, names[i], dir[names[i]], 1, td),
                       dir, names, i + 1, td)

RecoverScales(dir, td) == RecoverShards(EmptyFn, dir, shard_files(dir), 1, td)

N_MM == Join(<< "model", "language_model", "layers", "mlp" >>)
N_PLAIN == Join(<< "model", "layers", "mlp" >>)
\* model.named_modules(): the order the modules are walked in
ModuleOrder == << N_MM, N_PLAIN >>

\* An injection loop that forgets the weight_packed test
RECURSIVE InjectLoop_AnyModule(_, _, _, _, _)
InjectLoop_AnyModule(mods, bufs, st, i, n) ==
    IF i > Len(ModuleOrder) THEN [buffers |-> bufs, injected |-> n]
    ELSE LET name == ModuleOrder[i] IN
         IF name \in DOMAIN mods /\ name \in DOMAIN st
         THEN InjectLoop_AnyModule(mods, [bufs EXCEPT ![name] = st[name]], st, i + 1, n + 1)
         ELSE InjectLoop_AnyModule(mods, bufs, st, i + 1, n)

\* Lines 89-93: the loop over named_modules() from index i on, n injections so far;
\* register_buffer sets the module's buffer weight_scale
RECURSIVE InjectLoop(_, _, _, _, _)
InjectLoop(mods, bufs, st, i, n) ==
    IF i > Len(ModuleOrder) THEN [buffers |-> bufs, injected |-> n]
    ELSE LET name == ModuleOrder[i] IN
         IF name \in DOMAIN mods /\ mods[name] /\ name \in DOMAIN st
         THEN InjectLoop(mods, [bufs EXCEPT ![name] = st[name]], st, i + 1, n + 1)
         ELSE InjectLoop(mods, bufs, st, i + 1, n)

\* A validation whose failure is swallowed
AfterForward_Swallow(ok) == "Saving"

\* Lines 102-110: a raising forward pass is re-raised, else the function goes on
AfterForward(ok) == IF ok THEN "Saving" ELSE "Raised"

\* An injection that goes straight to the save
AfterInject_SkipValidate(n) == "Saving"

\* An injection that treats a count of zero as an error
AfterInject_ZeroIsError(n) == IF n = 0 THEN "Raised" ELSE "Validating"

\* Lines 95-101: whatever the count, the function goes on to the forward pass
AfterInject(n) == "Validating"

\* Lines 120-121: the side files that are copied when present
Allowlist == { "tokenizer.json", "tokenizer_config.json", "special_tokens_map.json",
               "tokenizer.model", "vocab.json", "merges.txt" }
\* What input_path may hold besides the shards
InputFileSets == { {}, {"tokenizer.json", "README.md"}, Allowlist }

\* What from_pretrained may give: which of the named modules exist, which have weight_packed
ModuleConfigs == UNION { [names -> BOOLEAN] : names \in SUBSET { N_MM, N_PLAIN } }

FixUnchangedOthers == UNCHANGED <<pvars, nvars, cvars, lvars>>

\* Lines 34-55: from_pretrained loads the model or raises
Load ==
    /\ fpc = "Loading"
    /\ \/ /\ \E mods \in ModuleConfigs :
                /\ modules' = mods
                /\ buffers' = [m \in DOMAIN mods |-> NoBuffer]
          /\ fpc' = "ScaleRecovery"
          /\ UNCHANGED fresult
       \/ /\ fpc' = "Raised"
          /\ fresult' = "LoadError"
          /\ UNCHANGED <<modules, buffers>>
    /\ UNCHANGED <<dtype, shardDir, scale_tensors, injected, forward, outDir, saved, copied>>
    /\ FixUnchangedOthers

\* Lines 57-84
ScaleRecovery ==
    /\ fpc = "ScaleRecovery"
    /\ scale_tensors' = RecoverScales(shardDir, dtype)
    /\ fpc' = "Injecting"
    /\ UNCHANGED <<dtype, shardDir, modules, buffers, injected, forward, outDir, saved,
                   copied, fresult>>
    /\ FixUnchangedOthers

\* Lines 86-96
Inject ==
    /\ fpc = "Injecting"
    /\ LET r == InjectLoop(modules, buffers, scale_tensors, 1, 0) IN
        /\ buffers' = r.buffers
        /\ injected' = r.injected
        /\ fpc' = AfterInject(r.injected)
        /\ fresult' = (IF AfterInject(r.injected) = "Raised" THEN "InjectError" ELSE fresult)
    /\ UNCHANGED <<dtype, shardDir, modules, scale_tensors, forward, outDir, saved, copied>>
    /\ FixUnchangedOthers

\* Lines 98-110: the forward pass completes or raises
Validate ==
    /\ fpc = "Validating"
    /\ \E ok \in BOOLEAN :
        /\ forward' = (IF ok THEN "ok" ELSE "raised")
        /\ fpc' = AfterForward(ok)
        /\ fresult' = (IF AfterForward(ok) = "Raised" THEN "ForwardError" ELSE fresult)
    /\ UNCHANGED <<dtype, shardDir, modules, scale_tensors, buffers, injected, outDir,
                   saved, copied>>
    /\ FixUnchangedOthers

\* Lines 112-133: mkdir, save_pretrained, the side files that exist, return True
Save ==
    /\ fpc = "Saving"
    /\ outDir' = TRUE
    /\ saved' = [done |-> TRUE, buffers |-> buffers]
    /\ \E present \in InputFileSets : copied' = present \cap Allowlist
    /\ fresult' = "True"
    /\ fpc' = "Done"
    /\ UNCHANGED <<dtype, shardDir, modules, scale_tensors, buffers, injected, forward>>
    /\ FixUnchangedOthers

\* No repair invocation
FixIdle ==
    /\ fpc = "Idle"
    /\ dtype = "bfloat16"
    /\ shardDir = EmptyFn
    /\ modules = EmptyFn
    /\ scale_tensors = EmptyFn
    /\ buffers = EmptyFn
    /\ injected = 0
    /\ forward = "none"
    /\ outDir = FALSE
    /\ saved = NotSaved
    /\ copied = {}
    /\ fresult = "none"

K_MM == Join(<< "language_model", "model", "layers", "mlp", "weight_scale" >>)
K_NEW == Join(<< "model", "language_model", "layers", "mlp", "weight_scale" >>)
K_PLAIN == Join(<< "model", "layers", "mlp", "weight_scale" >>)
K_PACKED == Join(<< "model", "layers", "mlp", "weight_packed" >>)
Entry(key, dt) == [key |-> key, dtype |-> dt]
Entries == { Entry(K_MM, FLOAT8), Entry(K_NEW, "float32"), Entry(K_PLAIN, FLOAT8),
             Entry(K_PACKED, "uint8") }
\* The entries of one file: its keys are distinct
ShardContents ==
    { c \in SeqsUpTo(Entries, MaxKeys) :
        \A i, j \in 1..Len(c) : i # j => c[i].key # c[j].key }
FileNames == { FileOrder[i] : i \in 1..Len(FileOrder) }

\* The start of one invocation on some checkpoint directory
InitFix ==
    /\ fpc = "Loading"
    /\ dtype \in { "bfloat16", "float16" }
    /\ \E names \in SUBSET FileNames : shardDir \in [names -> ShardContents]
    /\ modules = EmptyFn
    /\ scale_tensors = EmptyFn
    /\ buffers = EmptyFn
    /\ injected = 0
    /\ forward = "none"
    /\ outDir = FALSE
    /\ saved = NotSaved
    /\ copied = {}
    /\ fresult = "none"

----------------------------------------------------------------------------
(* The naming rewrite on one key: fix_model.py 71-81 *)

NotRetained == [retained |-> FALSE, name |-> << >>]

\* The body of the loop over f.keys() for the key nkey
DeriveName ==
    /\ nname = NotRetained
    /\ endswith(nkey, WEIGHT_SCALE)
    /\ nname' = [retained |-> TRUE, name |-> module_name_of(nkey)]
    /\ UNCHANGED <<nkey, pvars, fvars, cvars, lvars>>

Segments == { "language_model", "model", "layers", "mlp", "weight_scale" }
Keys == { Join(segs) : segs \in SeqsUpTo(Segments, MaxSegs) \ { << >> } }

NamesIdle ==
    /\ nkey = << >>
    /\ nname = NotRetained

InitNames ==
    /\ nkey \in Keys
    /\ nname = NotRetained

----------------------------------------------------------------------------
(* The command line: cli.py 8-82 *)

Commands == { "apply-patch", "check", "fix-model", "none" }
Chars == { "y", "Y", "n" }
\* What the operator may type at the prompt
Responses == SeqsUpTo(Chars, MaxResponseLen)
Unread == [kind |-> "unread", text |-> << >>]
Typed(r) == [kind |-> "text", text |-> r]
EndOfInput == [kind |-> "EOF", text |-> << >>]

\* str.lower() on the characters of Chars
lower(r) == [i \in 1..Len(r) |-> IF r[i] = "Y" THEN "y" ELSE r[i]]

\* A test of the answer that does not fold case
Declined_CaseSensitive(r) == r # << "y" >>
\* Line 68
Declined(r) == lower(r) # << "y" >>

\* sys.exit(main()) with main returning status, line 82
Exit(status) ==
    /\ cpc' = "exited"
    /\ exitCode' = << status >>

\* Line 71: fix_nvfp4_model is entered
CallFix ==
    /\ cpc' = "fix"
    /\ fpc' = "Loading"
    /\ UNCHANGED <<dtype, shardDir, modules, scale_tensors, buffers, injected, forward,
                   outDir, saved, copied, fresult>>

\* Lines 43-45: the call of apply_patch
CmdApplyPatch ==
    /\ cpc = "start" /\ command = "apply-patch"
    /\ cpc' = "apply"
    /\ UNCHANGED <<command, exitCode, prompted, response, traceback>>
    /\ UNCHANGED <<pvars, fvars, nvars, lvars>>

\* apply_patch running under 'apply-patch'
CliApplyPatch ==
    /\ cpc = "apply"
    /\ \/ calls = 0 /\ ApplyPatchBegin
       \/ ApplyPatch1
       \/ ApplyPatch2
       \/ ApplyPatch3

\* Lines 45-51: the boolean apply_patch returned, or the exception it raised,
\* which nothing catches: the interpreter prints the traceback and exits with 1
ApplyPatchReturn ==
    /\ cpc = "apply" /\ pc = "idle" /\ calls = 1
    /\ traceback' = (result \notin { "True", "False" })
    /\ Exit(IF result = "True" THEN 0 ELSE 1)
    /\ UNCHANGED <<command, prompted, response>>
    /\ UNCHANGED <<pvars, fvars, nvars, lvars>>

\* Lines 53-60
CmdCheck ==
    /\ cpc = "start" /\ command = "check"
    /\ Exit(IF is_patched(installed, readable, files) THEN 0 ELSE 1)
    /\ UNCHANGED <<command, prompted, response, traceback>>
    /\ UNCHANGED <<pvars, fvars, nvars, lvars>>

\* Lines 62-67 and 71: no prompt when patched
CmdFixModel ==
    /\ cpc = "start" /\ command = "fix-model"
    /\ IF is_patched(installed, readable, files)
       THEN CallFix /\ UNCHANGED prompted
       ELSE cpc' = "prompt" /\ prompted' = TRUE /\ UNCHANGED fvars
    /\ UNCHANGED <<command, exitCode, response, traceback>>
    /\ UNCHANGED <<pvars, nvars, lvars>>

\* Lines 67-71 and 73-75: input() gives a line or raises EOFError, which the
\* except clause turns into status 1
ReadResponse ==
    /\ cpc = "prompt"
    /\ \/ /\ response' = EndOfInput
          /\ Exit(1)
          /\ UNCHANGED fvars
       \/ \E r \in Responses :
            /\ response' = Typed(r)
            /\ IF Declined(r)
               THEN Exit(1) /\ UNCHANGED fvars
               ELSE CallFix /\ UNCHANGED exitCode
    /\ UNCHANGED <<command, prompted, traceback>>
    /\ UNCHANGED <<pvars, nvars, lvars>>

\* Lines 71-75: fix_nvfp4_model returned, or raised into the except clause
FixReturn ==
    /\ cpc = "fix" /\ fpc \in { "Done", "Raised" }
    /\ Exit(IF fpc = "Done" THEN 0 ELSE 1)
    /\ UNCHANGED <<command, prompted, response, traceback>>
    /\ UNCHANGED <<pvars, fvars, nvars, lvars>>

\* Lines 77-79
CmdNone ==
    /\ cpc = "start" /\ command = "none"
    /\ Exit(1)
    /\ UNCHANGED <<command, prompted, response, traceback>>
    /\ UNCHANGED <<pvars, fvars, nvars, lvars>>

\* No run of the command
CliIdle ==
    /\ command = "none"
    /\ cpc = "idle"
    /\ exitCode = << >>
    /\ prompted = FALSE
    /\ response = Unread
    /\ traceback = FALSE

----------------------------------------------------------------------------
(* Low-memory mode: low_memory.py 6-55 *)

COMPRESSED_FORWARD == "compressed_forward"
\* The forward methods CompressedLinear may come with
LibraryForwards == { "CompressedLinear.forward", "CompressedLinear.forward (subclassed)" }
None == "None"

\* An enable that never takes the early return
AlreadyEnabled_Never == FALSE
\* Line 20
AlreadyEnabled == lm_patched

\* Line 45
NotEnabled == ~lm_patched \/ original_forward = None

LowMemUnchangedOthers == UNCHANGED <<first_forward, pvars, fvars, nvars, cvars>>

\* Lines 9-39
enable_low_memory_mode ==
    /\ Len(toggles) < MaxToggles
    /\ toggles' = Append(toggles, "enable")
    /\ IF AlreadyEnabled
       THEN UNCHANGED <<lm_patched, original_forward, class_forward>>
       ELSE /\ original_forward' = class_forward
            /\ class_forward' = COMPRESSED_FORWARD
            /\ lm_patched' = TRUE
    /\ LowMemUnchangedOthers

\* Lines 41-51
disable_low_memory_mode ==
    /\ Len(toggles) < MaxToggles
    /\ toggles' = Append(toggles, "disable")
    /\ IF NotEnabled
       THEN UNCHANGED <<lm_patched, original_forward, class_forward>>
       ELSE /\ class_forward' = original_forward
            /\ lm_patched' = FALSE
            /\ UNCHANGED original_forward
    /\ LowMemUnchangedOthers

\* Lines 53-55
is_low_memory_enabled == lm_patched

\* low_memory.py as imported
InitLowMem ==
    /\ lm_patched = FALSE
    /\ original_forward = None
    /\ class_forward \in LibraryForwards
    /\ first_forward = class_forward
    /\ toggles = << >>

\* Low-memory mode never touched
LowMemIdle ==
    /\ lm_patched = FALSE
    /\ original_forward = None
    /\ class_forward = "CompressedLinear.forward"
    /\ first_forward = class_forward
    /\ toggles = << >>

----------------------------------------------------------------------------
(* Initial installations *)

BaseLines == { Line(4, ANCHOR1), Line(8, PASS), Line(4, MARK1) }
QuantLines == { Line(4, SKIPDEF), Line(8, STMT), Line(8, MARK2) }
Fp4Lines == { Line(8, SCALE3), Line(8, PASS), Line(8, MARK3) }
Pads == { Threshold, Threshold + 1 }

MaxLinesOf(t) ==
    CASE t = BASE -> MaxBaseLines [] t = QUANT -> MaxQuantLines [] t = FP4 -> MaxFp4Lines
LinesOf(t) ==
    CASE t = BASE -> BaseLines [] t = QUANT -> QuantLines [] t = FP4 -> Fp4Lines

FilesOf(b, q, f) == [t \in Targets |-> CASE t = BASE -> b [] t = QUANT -> q [] t = FP4 -> f]

\* The package is not installed (no target exists), or it is installed with
\* the three targets present; a target may be missing or unreadable.
InitInstallation ==
    \/ /\ installed = FALSE
       /\ readable = [t \in Targets |-> FALSE]
       /\ basePad = Threshold
       /\ files = FilesOf(<< >>, << >>, << >>)
    \/ /\ installed = TRUE
       /\ basePad \in Pads
       /\ \E b \in SeqsUpTo(BaseLines, MaxBaseLines),
             q \in SeqsUpTo(QuantLines, MaxQuantLines),
             f \in SeqsUpTo(Fp4Lines, MaxFp4Lines) : files = FilesOf(b, q, f)
       /\ readable \in { rd \in [Targets -> BOOLEAN] : \A t \in Targets : ~rd[t] => files[t] = << >> }

\* No apply_patch call was made yet
NoCallYet ==
    /\ hasBackup = [t \in Targets |-> FALSE]
    /\ backups = [t \in Targets |-> << >>]
    /\ pc = "idle"
    /\ result = "none"
    /\ log = << >>
    /\ pre = files
    /\ prevResult = "none"
    /\ calls = 0
    /\ checked = "none"
    /\ orig = files

InitPatch ==
    /\ InitInstallation
    /\ NoCallYet

\* Installations with a varied base.py, the other two targets as the edits expect them
InsertLines == { Line(4, ANCHOR1), Line(8, ANCHOR1), Line(8, PASS), Line(4, MARK1) }
InitBaseInstallation ==
    /\ installed = TRUE
    /\ readable = [t \in Targets |-> TRUE]
    /\ basePad \in Pads
    /\ \E b \in SeqsUpTo(InsertLines, MaxInsertLines) :
          files = FilesOf(b, << Line(4, SKIPDEF), Line(8, STMT) >>, << Line(8, SCALE3) >>)

\* Installations with a varied quantized_compressors/base.py
MethodLines == { Line(4, SKIPDEF), Line(4, OTHERDEF), Line(0, OTHERDEF), Line(8, OTHERDEF),
                 Line(4, DECORATOR), Line(8, STMT) }
InitQuantInstallation ==
    /\ installed = TRUE
    /\ readable = [t \in Targets |-> TRUE]
    /\ basePad = Threshold + 1
    /\ \E q \in SeqsUpTo(MethodLines, MaxMethodLines) :
          files = FilesOf(<< Line(4, ANCHOR1), Line(8, PASS) >>, q, << Line(8, SCALE3) >>)

\* The patch engine alone: no repair invocation is running
Init ==
    /\ InitPatch
    /\ FixIdle
    /\ NamesIdle
    /\ CliIdle
    /\ LowMemIdle

Next ==
    \/ ApplyPatchBegin
    \/ ApplyPatch1
    \/ ApplyPatch2
    \/ ApplyPatch3
    \/ Check

Spec == Init /\ [][Next]_vars

\* The patch engine on installations with a varied base.py
BaseInit == InitBaseInstallation /\ NoCallYet /\ FixIdle /\ NamesIdle /\ CliIdle /\ LowMemIdle
SpecBase == BaseInit /\ [][Next]_vars

\* The patch engine on installations with a varied quantized_compressors/base.py
QuantInit == InitQuantInstallation /\ NoCallYet /\ FixIdle /\ NamesIdle /\ CliIdle /\ LowMemIdle
SpecQuant == QuantInit /\ [][Next]_vars

\* No apply_patch call and no check
PatchIdle ==
    /\ installed = FALSE
    /\ readable = [t \in Targets |-> FALSE]
    /\ basePad = Threshold
    /\ files = FilesOf(<< >>, << >>, << >>)
    /\ hasBackup = [t \in Targets |-> FALSE]
    /\ backups = [t \in Targets |-> << >>]
    /\ pc = "idle"
    /\ result = "none"
    /\ log = << >>
    /\ pre = files
    /\ prevResult = "none"
    /\ calls = 0
    /\ checked = "none"
    /\ orig = files

\* One invocation of fix_nvfp4_model
FixInit == InitFix /\ PatchIdle /\ NamesIdle /\ CliIdle /\ LowMemIdle
FixNext == Load \/ ScaleRecovery \/ Inject \/ Validate \/ Save
SpecFix == FixInit /\ [][FixNext]_vars

\* The naming rewrite applied to one key
NamesInit == InitNames /\ PatchIdle /\ FixIdle /\ CliIdle /\ LowMemIdle
NamesNext == DeriveName
SpecNames == NamesInit /\ [][NamesNext]_vars

\* The installations a run of the command may find: each target as shipped or
\* as edited, quantized_compressors/base.py also without its method
CliBase == << Line(4, ANCHOR1), Line(8, PASS) >>
CliQuant == << Line(4, SKIPDEF), Line(8, STMT) >>
CliFp4 == << Line(8, SCALE3) >>
InitCliInstallation ==
    /\ installed \in BOOLEAN
    /\ readable \in { [t \in Targets |-> TRUE], [t \in Targets |-> t # QUANT] }
    /\ basePad = Threshold + 1
    /\ \E b \in { CliBase, Patch1(Threshold + 1, CliBase).lines },
          q \in { CliQuant, Patch2(CliQuant), << Line(8, STMT) >> },
          f \in { CliFp4, Patch3(CliFp4) } :
            files = FilesOf(b, q, f)

\* The arguments of 'fix-model': --dtype and an input_path with one file
InitCliArgs ==
    /\ fpc = "Idle"
    /\ dtype \in { "bfloat16", "float16" }
    /\ shardDir \in [{ FileOrder[1] } -> ShardContents]
    /\ modules = EmptyFn
    /\ scale_tensors = EmptyFn
    /\ buffers = EmptyFn
    /\ injected = 0
    /\ forward = "none"
    /\ outDir = FALSE
    /\ saved = NotSaved
    /\ copied = {}
    /\ fresult = "none"

\* One run of the nvfp4-fix command
CliInit ==
    /\ InitCliInstallation /\ NoCallYet
    /\ InitCliArgs
    /\ command \in Commands
    /\ cpc = "start"
    /\ exitCode = << >>
    /\ prompted = FALSE
    /\ response = Unread
    /\ traceback = FALSE
    /\ NamesIdle /\ LowMemIdle
CliFix == cpc = "fix" /\ FixNext
CliNext ==
    \/ CmdApplyPatch \/ CliApplyPatch \/ ApplyPatchReturn
    \/ CmdCheck
    \/ CmdFixModel \/ ReadResponse \/ CliFix \/ FixReturn
    \/ CmdNone
SpecCli == CliInit /\ [][CliNext]_vars

\* Any sequence of enable and disable calls
LowMemInit == InitLowMem /\ PatchIdle /\ FixIdle /\ NamesIdle /\ CliIdle
LowMemNext == enable_low_memory_mode \/ disable_low_memory_mode
SpecLowMem == LowMemInit /\ [][LowMemNext]_vars

----------------------------------------------------------------------------
(* Properties of the patch engine *)

InLog(kind, t) == \E i \in 1..Len(log) : log[i] = <<kind, t>>
CountLog(kind, t) == Cardinality({ i \in 1..Len(log) : log[i] = <<kind, t>> })
Returned == pc = "idle" /\ calls >= 1
HasMark(t, lines) ==
    CASE t = BASE  -> Mark1In(lines)
      [] t = QUANT -> Mark2In(lines)
      [] t = FP4   -> Mark3In(lines)
\* The anchor the edit of target t looks for is in lines
HasAnchor(t, lines) ==
    CASE t = BASE  -> FirstAnchor(basePad, lines) # 0
      [] t = QUANT -> SkipDefIn(lines)
      [] t = FP4   -> OldCodeIn(lines)
PatchedNow == is_patched(installed, readable, files)

\* C1: whenever a first apply_patch call returns True, is_patched() is True
\* after it and after an immediately following second call, and the second
\* call writes no target file and no backup.
C1_Idempotence ==
    /\ (Returned /\ calls = 1 /\ result = "True") => PatchedNow
    /\ (Returned /\ calls = 2 /\ prevResult = "True") => (PatchedNow /\ log = << >>)

\* C2: if the anchor of a target is absent from its file when apply_patch gets
\* to that target, the call returns False and the file's content is unchanged
\* (calls that end in a filesystem error are left aside).
C2_AnchorNotFoundSafety ==
    \A t \in Targets :
        (Returned /\ result \in {"True", "False"} /\ InLog("backup", t)
                  /\ ~HasAnchor(t, pre[t]))
            => (result = "False" /\ files[t] = pre[t])

\* C4: is_patched() is True exactly when the library is installed, all three
\* targets are readable and each holds its own detection marker; in every other
\* case (a marker absent, a file missing or unreadable, no library) it is False.
C4_DetectionSoundness ==
    checked # "none" =>
        ((checked = "True") <=>
            (installed /\ \A t \in Targets : readable[t] /\ HasMark(t, files[t])))

\* C4 witness: a check that answered False because exactly the marker of
\* fp4_quantized.py is absent, after an apply_patch call that edited the other two
C4_Witness ==
    /\ checked = "False" /\ calls >= 1
    /\ installed /\ \A t \in Targets : readable[t]
    /\ HasMark(BASE, files[BASE]) /\ HasMark(QUANT, files[QUANT])
    /\ ~HasMark(FP4, files[FP4])
    /\ InLog("write", QUANT)

\* C6: every failure of apply_patch (no library, anchor not found, filesystem
\* failure) comes back as the result False, never as an exception; without the
\* library nothing is read or written; no step is retried within the call.
C6_FailureReporting ==
    Returned =>
        /\ result \in {"True", "False"}
        /\ ~installed => (result = "False" /\ log = << >>)
        /\ \A t \in Targets :
              /\ (InLog("backup", t) /\ ~HasAnchor(t, pre[t])) => result = "False"
              /\ CountLog("backup", t) <= 1
              /\ CountLog("write", t) <= 1

\* The file writes of a call that edits all three targets
WriteOrder ==
    << <<"backup", BASE>>, <<"write", BASE>>, <<"backup", QUANT>>, <<"write", QUANT>>,
       <<"backup", FP4>>, <<"write", FP4>> >>

\* C7: the targets are edited in the order base.py, quantized base.py,
\* fp4_quantized.py; a target and its backup are written only after every
\* earlier target was successfully edited in the same call (it was written and
\* holds its marker); a call that fails leaves the earlier edits in place.
C7_FixedOrderNoRollback ==
    /\ Len(log) <= Len(WriteOrder) /\ log = SubSeq(WriteOrder, 1, Len(log))
    /\ \A t \in Targets : \A u \in Targets :
          (u < t /\ InLog("backup", t)) => (InLog("write", u) /\ HasMark(u, files[u]))

\* C8: in every apply_patch call each write of a target comes after the write
\* of its backup in the same call, the backup is a verbatim copy of the target
\* as it was before the edit (replacing any earlier backup), and a call writes
\* the backup of a target once: once for base.py in a call that returns False,
\* once for each target in a call that edits all three.
C8_BackupBeforeMutation ==
    \A t \in Targets :
        /\ \A i \in 1..Len(log) :
              log[i] = <<"write", t>> => \E j \in 1..(i-1) : log[j] = <<"backup", t>>
        /\ InLog("backup", t) => (hasBackup[t] /\ backups[t] = pre[t])
        /\ CountLog("backup", t) <= 1
        /\ (Returned /\ result = "False") => CountLog("backup", BASE) = 1
        /\ (Returned /\ result = "True" /\ log # << >>) => CountLog("backup", t) = 1

\* C8 witness: a second call edited base.py again and replaced the backup of
\* the first call by a copy of the (already edited) file it found
C8_Witness ==
    /\ Returned /\ calls = 2
    /\ InLog("write", BASE)
    /\ backups[BASE] = pre[BASE]
    /\ HasMark(BASE, backups[BASE])

\* C13: a target file that already holds its own detection marker when
\* apply_patch is called is skipped by that call: it is not written and keeps
\* the content it had, whatever the state of the other two targets.
C13_PerTargetSkip ==
    \A t \in Targets :
        (calls >= 1 /\ HasMark(t, pre[t])) => (files[t] = pre[t] /\ ~InLog("write", t))

\* No target file held a detection marker before the first call
StartedUnpatched == \A t \in Targets : ~HasMark(t, orig[t])

\* C17: on an installation whose three target files start without a detection
\* marker, every backup file that exists holds the original content of its
\* target, hence no detection marker, after any number of apply_patch calls.
C17_BackupRestorability ==
    StartedUnpatched =>
        \A t \in Targets : hasBackup[t] => (backups[t] = orig[t] /\ ~HasMark(t, backups[t]))

\* The first line of base.py, as apply_patch found it, that holds the anchor
\* at a 0-based index above the threshold; 0 when there is none
InsertionPoint ==
    LET S == { k \in 1..Len(pre[BASE]) :
                 pre[BASE][k].txt = ANCHOR1 /\ basePad + k - 1 > Threshold }
    IN  IF S = {} THEN 0 ELSE CHOOSE k \in S : \A j \in S : k <= j
\* The three inserted lines for an anchor line l
BufferBlock(l) ==
    << Line(l.ind, MARK1), Line(l.ind, FORBUF), Line(l.ind + 4, BUFBODY) >>

SkipDefLines == { i \in 1..Len(pre[QUANT]) : pre[QUANT][i].txt = SKIPDEF }
\* The first line after line i that is not indented deeper than line i, where
\* the routine defined at line i ends; one past the end when there is none
RoutineEnd(lines, i) ==
    LET S == { j \in (i+1)..Len(lines) : lines[j].ind <= lines[i].ind }
    IN  IF S = {} THEN Len(lines) + 1 ELSE CHOOSE j \in S : \A k \in S : j <= k

\* C15: for a file with one definition line of _skip_scale, the file written
\* by apply_patch keeps the lines before the definition and the lines from the
\* end of the routine onward (decorators and other statements included)
\* unchanged and in order, and has the fixed replacement in between.
C15_MethodBodyReplacement ==
    (InLog("write", QUANT) /\ Cardinality(SkipDefLines) = 1) =>
        LET i == CHOOSE i \in SkipDefLines : TRUE IN
        files[QUANT] = SubSeq(pre[QUANT], 1, i - 1)
                          \o ReplacementMethod(pre[QUANT][i].ind)
                          \o SubSeq(pre[QUANT], RoutineEnd(pre[QUANT], i), Len(pre[QUANT]))

----------------------------------------------------------------------------
(* Properties of the repair pipeline *)

\* The injection loop of this invocation has run
PastInjection ==
    /\ fpc \in { "Validating", "Saving", "Done", "Raised" }
    /\ fresult # "LoadError"
\* The modules the injection is meant for
Matched == { m \in DOMAIN modules : modules[m] /\ m \in DOMAIN scale_tensors }

\* C3: when the validation forward pass raises, that exception leaves
\* fix_nvfp4_model and the invocation produces no output (no output directory,
\* no saved model, no copied side file); the saving step is reached only after
\* a forward pass that completed.
C3_NoSaveAfterFailedValidation ==
    /\ forward = "raised" =>
          /\ fpc = "Raised" /\ fresult = "ForwardError"
          /\ ~outDir /\ ~saved.done /\ copied = {}
    /\ (fpc \in { "Saving", "Done" } \/ outDir \/ saved.done \/ copied # {}) => forward = "ok"

\* C3 witness: the forward pass raised after buffers had been injected
C3_Witness == forward = "raised" /\ injected >= 1 /\ fpc = "Raised"

\* C5: after the injection step every module that has weight_packed and whose
\* name is a key of scale_tensors carries the tensor recovered for its name as
\* its buffer weight_scale, every other module is as loaded, injected is the
\* number of those modules, and running the loop again changes neither.
C5_InjectionInvariant ==
    PastInjection =>
        /\ \A m \in DOMAIN modules :
              buffers[m] = (IF m \in Matched THEN scale_tensors[m] ELSE NoBuffer)
        /\ injected = Cardinality(Matched)
        /\ InjectLoop(modules, buffers, scale_tensors, 1, 0)
              = [buffers |-> buffers, injected |-> injected]

\* C5 witness: one module was injected, and a module without weight_packed
\* whose name is a key of scale_tensors was left alone
C5_Witness ==
    /\ PastInjection /\ injected = 1
    /\ \E m \in DOMAIN modules : ~modules[m] /\ m \in DOMAIN scale_tensors

StripSuffix(key) == SubSeq(key, 1, Len(key) - Len(WEIGHT_SCALE))
RewritePrefix(s) ==
    IF Len(s) >= Len(OLD_PREFIX) /\ SubSeq(s, 1, Len(OLD_PREFIX)) = OLD_PREFIX
    THEN NEW_PREFIX \o SubSeq(s, Len(OLD_PREFIX) + 1, Len(s))
    ELSE s

\* C9: the module name retained for a key ending in '.weight_scale' is the key
\* without that suffix, with a leading 'language_model.model.layers' rewritten
\* to 'model.language_model.layers' and nothing else changed; no other key is
\* retained.
C9_NamingRewrite ==
    /\ nname.retained => nname.name = RewritePrefix(StripSuffix(nkey))
    /\ ~endswith(nkey, WEIGHT_SCALE) => ~nname.retained

\* C10: when no recovered name is the name of a loaded module with
\* weight_packed, injected is 0 and the invocation does not raise for it: it
\* raises only if the forward pass does, and after a forward pass that
\* completed it saves the model and returns True.
C10_ZeroMatchSoftFailure ==
    (PastInjection /\ Matched = {}) =>
        /\ injected = 0
        /\ fpc = "Raised" => (forward = "raised" /\ fresult = "ForwardError")
        /\ forward = "ok" => fpc \in { "Saving", "Done" }
        /\ fpc = "Done" => (fresult = "True" /\ saved.done /\ outDir)

\* C10 witness: an invocation returned True with injected = 0 although scale
\* tensors were recovered and a module with weight_packed was loaded
C10_Witness ==
    /\ fpc = "Done" /\ fresult = "True" /\ injected = 0
    /\ DOMAIN scale_tensors # {}
    /\ \E m \in DOMAIN modules : modules[m]

\* The scale recovery of this invocation has run
PastRecovery ==
    /\ fpc \in { "Injecting", "Validating", "Saving", "Done", "Raised" }
    /\ fresult # "LoadError"
\* The entry of the shards a recovered tensor was read from
SourceEntry(t) ==
    CHOOSE e \in { shardDir[t.file][i] : i \in 1..Len(shardDir[t.file]) } : e.key = t.key
\* The entries of the shards the recovery reads whose key ends in '.weight_scale'
ScaleEntries ==
    { e \in UNION { { shardDir[shard_files(shardDir)[k]][i] :
                        i \in 1..Len(shardDir[shard_files(shardDir)[k]]) } :
                    k \in 1..Len(shard_files(shardDir)) } :
        endswith(e.key, WEIGHT_SCALE) }

\* C12: a recovered scale tensor that is stored as float8_e4m3fn has the dtype
\* asked for (bfloat16 or float16), one stored with another dtype keeps it, and
\* every module name derived from a scale key of the shards has a tensor.
C12_DtypeUpcast ==
    PastRecovery =>
        /\ \A n \in DOMAIN scale_tensors :
              LET t == scale_tensors[n]
                  e == SourceEntry(t)
              IN  t.dtype = (IF e.dtype = FLOAT8 THEN dtype ELSE e.dtype)
        /\ \A e \in ScaleEntries : module_name_of(e.key) \in DOMAIN scale_tensors

\* C12 witness: with dtype float16, a float8 tensor was recovered as float16
\* and a float32 tensor as float32
C12_Witness ==
    /\ PastRecovery /\ dtype = "float16"
    /\ \E n \in DOMAIN scale_tensors :
          SourceEntry(scale_tensors[n]).dtype = FLOAT8 /\ scale_tensors[n].dtype = "float16"
    /\ \E n \in DOMAIN scale_tensors : scale_tensors[n].dtype = "float32"

StageOrder == << "Loading", "ScaleRecovery", "Injecting", "Validating", "Saving", "Done" >>

\* C16: an invocation of fix_nvfp4_model moves only from a stage to the next
\* stage of Loading, ScaleRecovery, Injecting, Validating, Saving, Done, or out
\* of the sequence by an exception; nothing runs after Done or after the
\* exception, and no step leaves the stage as it was.
C16_StageOrder ==
    [][ /\ fpc' # fpc =>
              \E i \in 1..(Len(StageOrder) - 1) :
                  /\ fpc = StageOrder[i]
                  /\ \/ fpc' = StageOrder[i + 1] /\ fresult' \in { "none", "True" }
                     \/ /\ fpc' = "Raised"
                        /\ fresult = "none"
                        /\ fresult' \in { "LoadError", "ForwardError" }
        /\ fvars' # fvars => fpc' # fpc
        /\ fresult' = "True" <=> fpc' = "Done" ]_vars

\* C16 witness: an invocation that went through every stage with a buffer injected
C16_Witness == fpc = "Done" /\ fresult = "True" /\ injected >= 1 /\ forward = "ok" /\ saved.done

----------------------------------------------------------------------------
(* Properties of the command line *)

\* The operator answered 'y' or 'Y'
Accepted == response.kind = "text" /\ response.text \in { << "y" >>, << "Y" >> }
\* fix_nvfp4_model was not entered
FixNeverCalled == fpc = "Idle" /\ ~outDir /\ ~saved.done /\ copied = {}

\* C11: 'apply-patch' exits with 0 when apply_patch returned True and with 1
\* when it returned False or raised; 'check' exits with 0 iff is_patched() is
\* True, else 1; 'fix-model' exits with 0 iff fix_nvfp4_model completed and
\* with 1 when it raised; 'fix-model' prompts iff the patch is not applied,
\* and an answer other than 'y' or 'Y' (or no answer) makes it exit with 1
\* without fix_nvfp4_model being entered.
C11_ExitCodes ==
    /\ exitCode \in { << >>, << 0 >>, << 1 >> }
    /\ cpc = "exited" <=> exitCode # << >>
    /\ cpc = "exited" =>
          /\ command = "apply-patch" => exitCode = << IF result = "True" THEN 0 ELSE 1 >>
          /\ command = "check" => exitCode = << IF PatchedNow THEN 0 ELSE 1 >>
          /\ command = "fix-model" =>
                /\ exitCode = << 0 >> <=> (fpc = "Done" /\ fresult = "True")
                /\ fpc = "Raised" => exitCode = << 1 >>
    /\ command = "fix-model" =>
          /\ cpc # "start" => (prompted <=> ~PatchedNow)
          /\ (prompted /\ response.kind # "unread" /\ ~Accepted) =>
                (cpc = "exited" /\ exitCode = << 1 >> /\ FixNeverCalled)
          /\ (prompted /\ Accepted) => ~FixNeverCalled
          /\ ~FixNeverCalled => (~prompted \/ Accepted)
    /\ command # "fix-model" => (~prompted /\ FixNeverCalled)

\* C11 witness: with the patch not applied the operator answered 'Y', the
\* repair ran with a buffer injected and the command exited with 0
C11_Witness ==
    /\ cpc = "exited" /\ command = "fix-model"
    /\ prompted /\ response = Typed(<< "Y" >>)
    /\ exitCode = << 0 >> /\ saved.done /\ injected >= 1

----------------------------------------------------------------------------
(* Properties of low-memory mode *)

\* The three things a call may change
Toggle == <<lm_patched, original_forward, class_forward>>

\* C18: after any sequence of enable and disable calls,
\* is_low_memory_enabled() is True iff CompressedLinear.forward is the
\* replacement and False iff it is the forward found at import; an enable when
\* enabled and a disable when not enabled change nothing; the saved original
\* is never the replacement.
C18_LowMemoryToggle ==
    /\ [](is_low_memory_enabled <=> class_forward = COMPRESSED_FORWARD)
    /\ [](~is_low_memory_enabled <=> class_forward = first_forward)
    /\ [](original_forward \in { None, first_forward })
    /\ [][ /\ (toggles' = Append(toggles, "enable") /\ is_low_memory_enabled)
                => Toggle' = Toggle
           /\ (toggles' = Append(toggles, "disable") /\ ~is_low_memory_enabled)
                => Toggle' = Toggle ]_vars

\* C18 witness: enabled twice, disabled twice and enabled again on the second
\* library forward
C18_Witness ==
    /\ toggles = << "enable", "enable", "disable", "disable", "enable" >>
    /\ first_forward # "CompressedLinear.forward"
    /\ is_low_memory_enabled
    /\ class_forward = COMPRESSED_FORWARD
    /\ original_forward = first_forward

====
